---- MODULE Spec2Model ----
(***************************************************************************)
(* TestWings tools: the ONNX graph input classifier                        *)
(* (tools/check_onnx_inputs.py) and the model fetcher                      *)
(* (docs/tools/download_model.py), as state machines.                      *)
(*                                                                         *)
(* Python values of mixed type (int | str | None) are tagged records:      *)
(* IntD(v), StrD(s), NoneD.  Printed output is a sequence of line records. *)
(***************************************************************************)
EXTENDS Integers, Sequences, FiniteSets, TLC

VARIABLES
    \* ---- classifier: environment
    argv,                    \* sys.argv
    fs,                      \* paths for which os.path.exists is true
    file,                    \* content of the model file: [inputs, rt_inputs]
    load_ok,                 \* onnx.load succeeds on the file
    rt_ok,                   \* ort.InferenceSession succeeds on the file
    \* ---- classifier: program state
    pc,                      \* position in main / analyze_onnx_model
    path_i,                  \* loop position in possible_paths
    model_path,
    exit_code,               \* status passed to sys.exit, NoExit while running
    calls,                   \* external calls made so far, in order
    out,                     \* printed lines, in order
    input_i,                 \* loop position in graph.input / session.get_inputs()
    inputs_embeds_inputs,
    attention_mask_inputs,
    position_ids_inputs,
    past_key_values_inputs,
    other_inputs,
    \* ---- fetcher: environment
    f_argv,                  \* sys.argv of download_model.py
    remote,                  \* files hf_hub_download can retrieve
    stat_fail,               \* index of the downloaded file os.path.getsize fails on, 0: none
    \* ---- fetcher: program state
    f_pc,
    use_q4f16,
    required_files,
    file_i,                  \* loop position in required_files / downloaded_files
    downloaded_files,
    requested,               \* filenames passed to hf_hub_download, in order
    f_out,                   \* printed lines, in order
    result                   \* return value of download_model, "none" while running

cvars == <<argv, fs, file, load_ok, rt_ok, pc, path_i, model_path, exit_code,
           calls, out, input_i, inputs_embeds_inputs, attention_mask_inputs,
           position_ids_inputs, past_key_values_inputs, other_inputs>>
fvars == <<f_argv, remote, stat_fail, f_pc, use_q4f16, required_files, file_i,
           downloaded_files, requested, f_out, result>>
vars == <<cvars, fvars>>

-----------------------------------------------------------------------------
(* Bounds of the model *)

MaxMixed == 2       \* inputs of a graph with freely chosen names
MaxRank == 2        \* dimensions of a freely chosen shape
MaxDim == 1         \* largest concrete dimension value
MaxCache == 8       \* recurrent-cache inputs of a decoder-like graph

-----------------------------------------------------------------------------
(* Python values *)

None == "<None>"
NoExit == -1

IntD(v) == [t |-> "int", v |-> v, s |-> ""]
StrD(s) == [t |-> "str", v |-> 0, s |-> s]
NoneD == [t |-> "none", v |-> 0, s |-> ""]

\* L[:k] and L[-k:] of a Python list, k >= 0
PyHead(L, k) == SubSeq(L, 1, IF Len(L) < k THEN Len(L) ELSE k)
PyTail(L, k) == SubSeq(L, IF Len(L) < k THEN 1 ELSE Len(L) - k + 1, Len(L))

\* str.lower() on the ASCII letters
LowerChar(c) ==
    CASE c = "A" -> "a" [] c = "B" -> "b" [] c = "C" -> "c" [] c = "D" -> "d"
      [] c = "E" -> "e" [] c = "F" -> "f" [] c = "G" -> "g" [] c = "H" -> "h"
      [] c = "I" -> "i" [] c = "J" -> "j" [] c = "K" -> "k" [] c = "L" -> "l"
      [] c = "M" -> "m" [] c = "N" -> "n" [] c = "O" -> "o" [] c = "P" -> "p"
      [] c = "Q" -> "q" [] c = "R" -> "r" [] c = "S" -> "s" [] c = "T" -> "t"
      [] c = "U" -> "u" [] c = "V" -> "v" [] c = "W" -> "w" [] c = "X" -> "x"
      [] c = "Y" -> "y" [] c = "Z" -> "z" [] OTHER -> c

RECURSIVE Lower(_)
Lower(s) ==
    IF Len(s) = 0 THEN ""
    ELSE LowerChar(SubSeq(s, 1, 1)) \o Lower(SubSeq(s, 2, Len(s)))

\* sub in s
Contains(sub, s) ==
    \E i \in 1..(Len(s) - Len(sub) + 1) : SubSeq(s, i, i + Len(sub) - 1) = sub

\* s.startswith(prefix)
StartsWith(s, prefix) ==
    /\ Len(prefix) <= Len(s)
    /\ SubSeq(s, 1, Len(prefix)) = prefix

-----------------------------------------------------------------------------
(* check_onnx_inputs.py: main *)

possible_paths ==
    << "E:\\AutoTestDemo\\TestWings\\models\\vl\\decoder_model_merged_q4f16.onnx",
       "C:\\Users\\ch2oh\\AppData\\Local\\Android\\Sdk\\platform-tools\\models\\vl\\decoder_model_merged_q4f16.onnx",
       "models/vl/decoder_model_merged_q4f16.onnx",
       "../models/vl/decoder_model_merged_q4f16.onnx" >>

\* one printed line: what it is, the group it belongs to, and the values formatted into it
Line(kind, group, name, shape, n) ==
    [kind |-> kind, group |-> group, name |-> name, shape |-> shape, n |-> n,
     dyn |-> <<>>]

Text(kind) == Line(kind, "", "", <<>>, 0)

Call(fn, arg, ret) == [fn |-> fn, arg |-> arg, ret |-> ret]

\* os.path.exists
Exists(p) == p \in fs

\* a value Python treats as false in `if not model_path`
Falsy(p) == p = None \/ p = ""

lists == <<inputs_embeds_inputs, attention_mask_inputs, position_ids_inputs,
           past_key_values_inputs, other_inputs>>
env == <<argv, fs, file, load_ok, rt_ok>>

\* if len(sys.argv) > 1: model_path = sys.argv[1]
MainArg ==
    /\ pc = "main"
    /\ Len(argv) > 1
    /\ model_path' = argv[2]
    /\ pc' = "check"
    /\ UNCHANGED <<env, path_i, exit_code, calls, out, input_i, lists, fvars>>

\* else: model_path = None; for path in possible_paths
MainSearch ==
    /\ pc = "main"
    /\ ~(Len(argv) > 1)
    /\ model_path' = None
    /\ path_i' = 1
    /\ pc' = "search"
    /\ UNCHANGED <<env, exit_code, calls, out, input_i, lists, fvars>>

\* one iteration of the search loop; a hit breaks out, and model_path (one of
\* the non-empty possible_paths) is then truthy, so the guidance branch is skipped
SearchStep ==
    /\ pc = "search"
    /\ path_i <= Len(possible_paths)
    /\ LET path == possible_paths[path_i] IN
        /\ calls' = Append(calls, Call("os.path.exists", path, Exists(path)))
        /\ IF Exists(path)
           THEN /\ model_path' = path
                /\ pc' = "check"
                /\ UNCHANGED path_i
           ELSE /\ path_i' = path_i + 1
                /\ UNCHANGED <<model_path, pc>>
    /\ UNCHANGED <<env, exit_code, out, input_i, lists, fvars>>

\* the loop ran out: if not model_path: print guidance; sys.exit(1)
SearchExhausted ==
    /\ pc = "search"
    /\ path_i > Len(possible_paths)
    /\ Falsy(model_path)
    /\ out' = out \o <<Text("error_not_found"), Text("usage")>>
                  \o [i \in 1..Len(possible_paths) |->
                        Line("candidate", "", possible_paths[i], <<>>, 0)]
    /\ exit_code' = 1
    /\ pc' = "exit"
    /\ UNCHANGED <<env, path_i, model_path, calls, input_i, lists, fvars>>

\* the existence check without its sys.exit(1)
CheckMissing_NoExit ==
    /\ pc = "check"
    /\ ~Exists(model_path)
    /\ calls' = Append(calls, Call("os.path.exists", model_path, FALSE))
    /\ out' = Append(out, Line("error_missing", "", model_path, <<>>, 0))
    /\ pc' = "analyze"
    /\ UNCHANGED <<env, path_i, model_path, exit_code, input_i, lists, fvars>>

\* if not os.path.exists(model_path): print error; sys.exit(1)
CheckMissing ==
    /\ pc = "check"
    /\ ~Exists(model_path)
    /\ calls' = Append(calls, Call("os.path.exists", model_path, FALSE))
    /\ out' = Append(out, Line("error_missing", "", model_path, <<>>, 0))
    /\ exit_code' = 1
    /\ pc' = "exit"
    /\ UNCHANGED <<env, path_i, model_path, input_i, lists, fvars>>

\* the path exists: analyze_onnx_model(model_path) is entered
CheckOk ==
    /\ pc = "check"
    /\ Exists(model_path)
    /\ calls' = Append(calls, Call("os.path.exists", model_path, TRUE))
    /\ pc' = "analyze"
    /\ UNCHANGED <<env, path_i, model_path, exit_code, out, input_i, lists, fvars>>

-----------------------------------------------------------------------------
(* check_onnx_inputs.py: analyze_onnx_model, static phase *)

\* a display rule that takes 0 for a concrete value
DisplayDim_ZeroConcrete(dim) ==
    IF dim.dim_value >= 0 THEN IntD(dim.dim_value)
    ELSE IF dim.dim_param # "" THEN StrD(dim.dim_param)
    ELSE IntD(-1)

\* dim.dim_value if dim.dim_value > 0 else (dim.dim_param if dim.dim_param else -1)
DisplayDim(dim) ==
    IF dim.dim_value > 0 THEN IntD(dim.dim_value)
    ELSE IF dim.dim_param # "" THEN StrD(dim.dim_param)
    ELSE IntD(-1)

\* the list comprehension over input_tensor.type.tensor_type.shape.dim
DisplayShape(dims) == [i \in 1..Len(dims) |-> DisplayDim(dims[i])]

InputInfo(input_tensor) ==
    [name |-> input_tensor.name,
     shape |-> DisplayShape(input_tensor.dims),
     type |-> input_tensor.elem_type]

\* the chain with the recurrent-cache test moved to the front
Classify_CacheFirst(name) ==
    IF Contains("past_key_values", Lower(name)) \/ StartsWith(name, "past_key_values")
    THEN "past_key_values"
    ELSE IF Contains("inputs_embeds", Lower(name)) \/ name = "inputs_embeds"
    THEN "inputs_embeds"
    ELSE IF Contains("attention_mask", Lower(name)) \/ name = "attention_mask"
    THEN "attention_mask"
    ELSE IF Contains("position_ids", Lower(name)) \/ name = "position_ids"
    THEN "position_ids"
    ELSE "other"

\* the chain without name.lower()
Classify_CaseSensitive(name) ==
    IF Contains("inputs_embeds", name) \/ name = "inputs_embeds"
    THEN "inputs_embeds"
    ELSE IF Contains("attention_mask", name) \/ name = "attention_mask"
    THEN "attention_mask"
    ELSE IF Contains("position_ids", name) \/ name = "position_ids"
    THEN "position_ids"
    ELSE IF Contains("past_key_values", name) \/ StartsWith(name, "past_key_values")
    THEN "past_key_values"
    ELSE "other"

\* the if / elif chain that picks the list an input is appended to
Classify(name) ==
    IF Contains("inputs_embeds", Lower(name)) \/ name = "inputs_embeds"
    THEN "inputs_embeds"
    ELSE IF Contains("attention_mask", Lower(name)) \/ name = "attention_mask"
    THEN "attention_mask"
    ELSE IF Contains("position_ids", Lower(name)) \/ name = "position_ids"
    THEN "position_ids"
    ELSE IF Contains("past_key_values", Lower(name)) \/ StartsWith(name, "past_key_values")
    THEN "past_key_values"
    ELSE "other"

\* model = onnx.load(model_path) raises: the message is printed and the function returns
LoadFail ==
    /\ pc = "analyze"
    /\ ~load_ok
    /\ calls' = Append(calls, Call("onnx.load", model_path, FALSE))
    /\ out' = out \o <<Line("analyzing", "", model_path, <<>>, 0), Text("onnx_load_failed")>>
    /\ pc' = "done"
    /\ UNCHANGED <<env, path_i, model_path, exit_code, input_i, lists, fvars>>

\* onnx.load succeeds: headers are printed and the five lists start empty
LoadOk ==
    /\ pc = "analyze"
    /\ load_ok
    /\ calls' = Append(calls, Call("onnx.load", model_path, TRUE))
    /\ out' = out \o <<Line("analyzing", "", model_path, <<>>, 0),
                       Text("onnx_load_ok"),
                       Text("static_header"),
                       Line("static_count", "", "", <<>>, Len(file.inputs))>>
    /\ inputs_embeds_inputs' = <<>>
    /\ attention_mask_inputs' = <<>>
    /\ position_ids_inputs' = <<>>
    /\ past_key_values_inputs' = <<>>
    /\ other_inputs' = <<>>
    /\ input_i' = 1
    /\ pc' = "classify"
    /\ UNCHANGED <<env, path_i, model_path, exit_code, fvars>>

\* one iteration of `for input_tensor in inputs`
ClassifyStep ==
    /\ pc = "classify"
    /\ input_i <= Len(file.inputs)
    /\ LET input_tensor == file.inputs[input_i]
           input_info == InputInfo(input_tensor)
           c == Classify(input_tensor.name)
       IN  /\ inputs_embeds_inputs' =
                 IF c = "inputs_embeds" THEN Append(inputs_embeds_inputs, input_info)
                 ELSE inputs_embeds_inputs
           /\ attention_mask_inputs' =
                 IF c = "attention_mask" THEN Append(attention_mask_inputs, input_info)
                 ELSE attention_mask_inputs
           /\ position_ids_inputs' =
                 IF c = "position_ids" THEN Append(position_ids_inputs, input_info)
                 ELSE position_ids_inputs
           /\ past_key_values_inputs' =
                 IF c = "past_key_values" THEN Append(past_key_values_inputs, input_info)
                 ELSE past_key_values_inputs
           /\ other_inputs' =
                 IF c = "other" THEN Append(other_inputs, input_info)
                 ELSE other_inputs
    /\ input_i' = input_i + 1
    /\ UNCHANGED <<env, pc, path_i, model_path, exit_code, calls, out, fvars>>

Entries(group, infos) ==
    [i \in 1..Len(infos) |-> Line("entry", group, infos[i].name, infos[i].shape, 0)]

\* a group printed in full under its header, or nothing when the list is empty
PlainGroup(group, infos) ==
    IF Len(infos) > 0
    THEN <<Line("header", group, "", <<>>, 0)>> \o Entries(group, infos)
    ELSE <<>>

\* the group with the elision count taken from the first slice only
CacheGroup_CountHead(infos) ==
    IF Len(infos) > 0
    THEN <<Line("header", "past_key_values", "", <<>>, Len(infos))>>
         \o Entries("past_key_values", PyHead(infos, 3))
         \o (IF Len(infos) > 6
             THEN <<Line("elision", "past_key_values", "", <<>>, Len(infos) - 3)>>
             ELSE <<>>)
         \o Entries("past_key_values", PyTail(infos, 3))
    ELSE <<>>

\* the past_key_values group: [:3], the elision line when there are more than 6, [-3:]
CacheGroup(infos) ==
    IF Len(infos) > 0
    THEN <<Line("header", "past_key_values", "", <<>>, Len(infos))>>
         \o Entries("past_key_values", PyHead(infos, 3))
         \o (IF Len(infos) > 6
             THEN <<Line("elision", "past_key_values", "", <<>>, Len(infos) - 6)>>
             ELSE <<>>)
         \o Entries("past_key_values", PyTail(infos, 3))
    ELSE <<>>

\* the loop is over: the grouped listings and the runtime phase's header are printed
PrintGroups ==
    /\ pc = "classify"
    /\ input_i > Len(file.inputs)
    /\ out' = out \o PlainGroup("inputs_embeds", inputs_embeds_inputs)
                  \o PlainGroup("attention_mask", attention_mask_inputs)
                  \o PlainGroup("position_ids", position_ids_inputs)
                  \o CacheGroup(past_key_values_inputs)
                  \o PlainGroup("other", other_inputs)
                  \o <<Text("runtime_header")>>
    /\ pc' = "runtime"
    /\ UNCHANGED <<env, path_i, model_path, exit_code, calls, input_i, lists, fvars>>

-----------------------------------------------------------------------------
(* check_onnx_inputs.py: analyze_onnx_model, runtime phase *)

\* isinstance(dim, str) or (isinstance(dim, int) and dim < 0)
IsDynamic(dim) == dim.t = "str" \/ (dim.t = "int" /\ dim.v < 0)

\* [i for i, dim in enumerate(shape) if ...]: 0-based indices, increasing
DynamicDims(shape) ==
    SelectSeq([i \in 1..Len(shape) |-> i - 1], LAMBDA i : IsDynamic(shape[i + 1]))

\* ort.InferenceSession(...) raises: caught, three lines printed
SessionFail ==
    /\ pc = "runtime"
    /\ ~rt_ok
    /\ calls' = Append(calls, Call("ort.InferenceSession", model_path, FALSE))
    /\ out' = out \o <<Text("ort_load_failed"), Text("ort_hint_1"), Text("ort_hint_2")>>
    /\ pc' = "done"
    /\ UNCHANGED <<env, path_i, model_path, exit_code, input_i, lists, fvars>>

\* the session opens: the count of its inputs is printed
SessionOpen ==
    /\ pc = "runtime"
    /\ rt_ok
    /\ calls' = Append(calls, Call("ort.InferenceSession", model_path, TRUE))
    /\ out' = Append(out, Line("rt_count", "", "", <<>>, Len(file.rt_inputs)))
    /\ input_i' = 1
    /\ pc' = "rt_loop"
    /\ UNCHANGED <<env, path_i, model_path, exit_code, lists, fvars>>

\* the lines printed for one input of the session
RuntimeLines(input_meta) ==
    LET dynamic_dims == DynamicDims(input_meta.shape) IN
    <<Line("rt_input", "", input_meta.name, <<>>, 0),
      Line("rt_shape", "", input_meta.name, input_meta.shape, 0),
      Line("rt_type", "", input_meta.type, <<>>, 0)>>
    \o (IF Len(dynamic_dims) > 0
        THEN <<[Line("rt_dynamic", "", input_meta.name, <<>>, 0)
                    EXCEPT !.dyn = dynamic_dims]>>
        ELSE <<>>)
    \o <<Text("blank")>>

\* one iteration of `for input_meta in session.get_inputs()`
RuntimeStep ==
    /\ pc = "rt_loop"
    /\ input_i <= Len(file.rt_inputs)
    /\ out' = out \o RuntimeLines(file.rt_inputs[input_i])
    /\ input_i' = input_i + 1
    /\ UNCHANGED <<env, pc, path_i, model_path, exit_code, calls, lists, fvars>>

\* the loop is over: analyze_onnx_model returns
RuntimeEnd ==
    /\ pc = "rt_loop"
    /\ input_i > Len(file.rt_inputs)
    /\ pc' = "done"
    /\ UNCHANGED <<env, path_i, model_path, exit_code, calls, out, input_i, lists, fvars>>

\* what the session reports for a graph input: a concrete value as an int, a
\* symbolic name as a str, a dimension with neither as None
RuntimeDim(dim) ==
    IF dim.dim_value # 0 THEN IntD(dim.dim_value)
    ELSE IF dim.dim_param # "" THEN StrD(dim.dim_param)
    ELSE NoneD

RuntimeView(input_tensor) ==
    [name |-> input_tensor.name,
     shape |-> [i \in 1..Len(input_tensor.dims) |-> RuntimeDim(input_tensor.dims[i])],
     type |-> "tensor(float)"]

-----------------------------------------------------------------------------
(* download_model.py *)

decoder_file == "onnx/decoder_model_merged_q4f16.onnx"
vision_encoder_file == "onnx/vision_encoder_q4f16.onnx"
embed_tokens_file == "onnx/embed_tokens_q4f16.onnx"

\* a fetcher that honours the flag: the int8 variants unless --q4f16 is given
RequiredFiles_ByFlag(flag) ==
    <<"config.json", "preprocessor_config.json", "tokenizer.json">>
    \o (IF flag
        THEN <<decoder_file, vision_encoder_file, embed_tokens_file>>
        ELSE <<"onnx/decoder_model_merged_int8.onnx", "onnx/vision_encoder_int8.onnx",
               "onnx/embed_tokens_int8.onnx">>)

\* required_files after the three appends; `use_q4f16 or True` guards prints only
RequiredFiles(flag) ==
    <<"config.json", "preprocessor_config.json", "tokenizer.json">>
    \o <<decoder_file>> \o <<vision_encoder_file>> \o <<embed_tokens_file>>

\* os.path.basename for "/"-separated paths
RECURSIVE Basename(_)
Basename(path) ==
    IF Len(path) = 0 THEN ""
    ELSE IF \E i \in 1..Len(path) : SubSeq(path, i, i) = "/"
    THEN Basename(SubSeq(path,
                         1 + (CHOOSE i \in 1..Len(path) : SubSeq(path, i, i) = "/"),
                         Len(path)))
    ELSE path

FLine(kind, name) == [kind |-> kind, name |-> name]

fenv == <<f_argv, remote, stat_fail>>

\* __main__: use_q4f16 = "--q4f16" in sys.argv or "-q" in sys.argv; two banner lines
FMain ==
    /\ f_pc = "main"
    /\ use_q4f16' = (\E i \in 1..Len(f_argv) : f_argv[i] = "--q4f16" \/ f_argv[i] = "-q")
    /\ f_out' = f_out \o <<FLine("banner", ""), FLine("banner_int8", "")>>
    /\ f_pc' = "download_model"
    /\ UNCHANGED <<fenv, required_files, file_i, downloaded_files, requested, result, cvars>>

\* download_model up to the loop: the list is built and the headers are printed
FStart ==
    /\ f_pc = "download_model"
    /\ required_files' = RequiredFiles(use_q4f16)
    /\ f_out' = f_out
                \o (IF use_q4f16 \/ TRUE
                    THEN <<FLine("q4f16", ""), FLine("q4f16_note", "")>>
                    ELSE <<>>)
                \o <<FLine("start", "onnx-community/Qwen2-VL-2B-Instruct"),
                     FLine("save_dir", "."),
                     FLine("count", ""),
                     FLine("wait", "")>>
    /\ downloaded_files' = <<>>
    /\ file_i' = 1
    /\ f_pc' = "loop"
    /\ UNCHANGED <<fenv, use_q4f16, requested, result, cvars>>

\* a failed retrieval that is reported and skipped instead of ending the batch
FDownloadFail_Continue ==
    /\ f_pc = "loop"
    /\ file_i <= Len(required_files)
    /\ required_files[file_i] \notin remote
    /\ requested' = Append(requested, required_files[file_i])
    /\ f_out' = f_out \o <<FLine("downloading", required_files[file_i]),
                           FLine("failed", required_files[file_i])>>
    /\ file_i' = file_i + 1
    /\ UNCHANGED <<fenv, f_pc, use_q4f16, required_files, downloaded_files, result, cvars>>

\* one iteration of the loop, hf_hub_download returns the local file
FDownloadOk ==
    /\ f_pc = "loop"
    /\ file_i <= Len(required_files)
    /\ required_files[file_i] \in remote
    /\ LET file_path == required_files[file_i]
           local_file == file_path
       IN  /\ requested' = Append(requested, file_path)
           /\ downloaded_files' = Append(downloaded_files, local_file)
           /\ f_out' = f_out \o <<FLine("downloading", file_path),
                                  FLine("done", Basename(local_file))>>
    /\ file_i' = file_i + 1
    /\ UNCHANGED <<fenv, f_pc, use_q4f16, required_files, result, cvars>>

\* one iteration of the loop, hf_hub_download raises: except branch, return False
FDownloadFail ==
    /\ f_pc = "loop"
    /\ file_i <= Len(required_files)
    /\ required_files[file_i] \notin remote
    /\ requested' = Append(requested, required_files[file_i])
    /\ f_out' = f_out \o <<FLine("downloading", required_files[file_i]),
                           FLine("failed", required_files[file_i])>>
    /\ result' = "False"
    /\ f_pc' = "done"
    /\ UNCHANGED <<fenv, use_q4f16, required_files, file_i, downloaded_files, cvars>>

\* the loop is over: the completion message and the list header are printed
FComplete ==
    /\ f_pc = "loop"
    /\ file_i > Len(required_files)
    /\ f_out' = f_out \o <<FLine("all_done", ""), FLine("location", "."),
                           FLine("list_header", "")>>
    /\ file_i' = 1
    /\ f_pc' = "report"
    /\ UNCHANGED <<fenv, use_q4f16, required_files, downloaded_files, requested, result, cvars>>

\* one iteration of `for f in downloaded_files`: name and size are printed
FReportStep ==
    /\ f_pc = "report"
    /\ file_i <= Len(downloaded_files)
    /\ file_i # stat_fail
    /\ f_out' = Append(f_out, FLine("size", Basename(downloaded_files[file_i])))
    /\ file_i' = file_i + 1
    /\ UNCHANGED <<fenv, f_pc, use_q4f16, required_files, downloaded_files, requested,
                   result, cvars>>

\* os.path.getsize raises inside the try: except branch, return False
FReportFail ==
    /\ f_pc = "report"
    /\ file_i <= Len(downloaded_files)
    /\ file_i = stat_fail
    /\ f_out' = Append(f_out, FLine("failed", downloaded_files[file_i]))
    /\ result' = "False"
    /\ f_pc' = "done"
    /\ UNCHANGED <<fenv, use_q4f16, required_files, file_i, downloaded_files, requested, cvars>>

\* return True
FReturn ==
    /\ f_pc = "report"
    /\ file_i > Len(downloaded_files)
    /\ result' = "True"
    /\ f_pc' = "done"
    /\ UNCHANGED <<fenv, use_q4f16, required_files, file_i, downloaded_files, requested,
                   f_out, cvars>>

-----------------------------------------------------------------------------
(* Inputs *)

SeqsUpTo(S, k) == UNION {[1..n -> S] : n \in 0..k}

Dim(value, param) == [dim_value |-> value, dim_param |-> param]

DimParams == {"batch_size", "sequence_length"}

\* a dimension holds a value or a name, never both (a protobuf oneof); one
\* holding neither reads as value 0 and name ""
Dims == {Dim(v, "") : v \in (-1)..MaxDim} \cup {Dim(0, p) : p \in DimParams}

Shapes == SeqsUpTo(Dims, MaxRank)

\* what a session may report for one dimension
RtDims == {IntD(v) : v \in (-1)..MaxDim} \cup {StrD(p) : p \in DimParams} \cup {NoneD}

RtShapes == SeqsUpTo(RtDims, MaxRank)

Names ==
    {"inputs_embeds", "position_ids", "PAST_KEY_VALUES.0.value", "pixel_values",
     "past_key_values.0.inputs_embeds", "Attention_Mask.position_ids",
     "past_key_values.position_ids"}

Tensor(name, dims) == [name |-> name, dims |-> dims, elem_type |-> 1]

TokenDims == <<Dim(0, "batch_size"), Dim(0, "sequence_length")>>

File(inputs, rt_inputs) == [inputs |-> inputs, rt_inputs |-> rt_inputs]

\* a file whose session reports what the graph declares
Agreeing(inputs) == File(inputs, [i \in 1..Len(inputs) |-> RuntimeView(inputs[i])])

\* graphs of up to MaxMixed inputs with any of Names
NameFiles ==
    {Agreeing([i \in 1..Len(ns) |-> Tensor(ns[i], TokenDims)]) : ns \in SeqsUpTo(Names, MaxMixed)}

\* graphs of one input with any declared shape
ShapeFiles == {Agreeing(<<Tensor("input_ids", dims)>>) : dims \in Shapes}

\* files whose session reports any shape for the one input
RtFiles ==
    {File(<<Tensor("input_ids", TokenDims)>>,
          <<[name |-> "input_ids", shape |-> shape, type |-> "tensor(int64)"]>>) :
        shape \in RtShapes}

Digits == <<"0", "1", "2", "3", "4", "5", "6", "7", "8", "9">>

\* the i-th (from 0) recurrent-cache input of a decoder: layer i \div 2, key then value
CacheName(i) ==
    "past_key_values." \o Digits[(i \div 2) + 1] \o (IF i % 2 = 0 THEN ".key" ELSE ".value")

CacheDims == <<Dim(0, "batch_size"), Dim(2, ""), Dim(0, "past_sequence_length"), Dim(0, "")>>

\* a decoder graph with n recurrent-cache inputs
DecoderFile(n) ==
    Agreeing(<<Tensor("inputs_embeds", TokenDims \o <<Dim(1, "")>>),
               Tensor("attention_mask", TokenDims),
               Tensor("position_ids", <<Dim(1, "")>> \o TokenDims)>>
             \o [i \in 1..n |-> Tensor(CacheName(i - 1), CacheDims)])

DecoderFiles == {DecoderFile(n) : n \in 0..MaxCache}

Files == NameFiles \cup ShapeFiles \cup RtFiles \cup DecoderFiles

UserPath == "my/model.onnx"

Paths == {possible_paths[i] : i \in 1..Len(possible_paths)} \cup {UserPath}

Prog == "check_onnx_inputs.py"

Argvs == {<<Prog>>, <<Prog, UserPath>>, <<Prog, possible_paths[3]>>}

FProg == "download_model.py"

FArgvs == {<<FProg>>, <<FProg, "--q4f16">>, <<FProg, "-q">>, <<FProg, "--int8">>,
           <<FProg, "-q", "--q4f16">>}

-----------------------------------------------------------------------------
(* Specifications *)

ClassifierStart ==
    /\ path_i = 1
    /\ exit_code = NoExit
    /\ calls = <<>>
    /\ out = <<>>
    /\ input_i = 1
    /\ inputs_embeds_inputs = <<>>
    /\ attention_mask_inputs = <<>>
    /\ position_ids_inputs = <<>>
    /\ past_key_values_inputs = <<>>
    /\ other_inputs = <<>>

FetcherStart ==
    /\ use_q4f16 = FALSE
    /\ required_files = <<>>
    /\ file_i = 1
    /\ downloaded_files = <<>>
    /\ requested = <<>>
    /\ f_out = <<>>
    /\ result = "None"

\* the classifier is not running
ClassifierIdle ==
    /\ argv = <<Prog>>
    /\ fs = {}
    /\ file = DecoderFile(0)
    /\ load_ok = TRUE
    /\ rt_ok = TRUE
    /\ pc = "idle"
    /\ model_path = None
    /\ ClassifierStart

\* the fetcher is not running
FetcherIdle ==
    /\ f_argv = <<FProg>>
    /\ remote = {}
    /\ stat_fail = 0
    /\ f_pc = "idle"
    /\ FetcherStart

\* check_onnx_inputs.py run from the command line
Init ==
    /\ argv \in Argvs
    /\ fs \in SUBSET Paths
    /\ file \in DecoderFiles
    /\ load_ok \in BOOLEAN
    /\ rt_ok \in BOOLEAN
    /\ pc = "main"
    /\ model_path = None
    /\ ClassifierStart
    /\ FetcherIdle

\* analyze_onnx_model called on an existing file
InitAnalyze ==
    /\ argv = <<Prog, UserPath>>
    /\ fs = {UserPath}
    /\ file \in Files
    /\ load_ok \in BOOLEAN
    /\ rt_ok \in BOOLEAN
    /\ pc = "analyze"
    /\ model_path = UserPath
    /\ ClassifierStart
    /\ FetcherIdle

\* download_model.py run from the command line
InitFetcher ==
    /\ f_argv \in FArgvs
    /\ remote \in SUBSET {RequiredFiles(TRUE)[i] : i \in 1..Len(RequiredFiles(TRUE))}
    /\ stat_fail \in 0..Len(RequiredFiles(TRUE))
    /\ f_pc = "main"
    /\ FetcherStart
    /\ ClassifierIdle

NextAnalyze ==
    \/ LoadFail
    \/ LoadOk
    \/ ClassifyStep
    \/ PrintGroups
    \/ SessionFail
    \/ SessionOpen
    \/ RuntimeStep
    \/ RuntimeEnd

Next ==
    \/ MainArg
    \/ MainSearch
    \/ SearchStep
    \/ SearchExhausted
    \/ CheckMissing
    \/ CheckOk
    \/ NextAnalyze

NextFetcher ==
    \/ FMain
    \/ FStart
    \/ FDownloadOk
    \/ FDownloadFail
    \/ FComplete
    \/ FReportStep
    \/ FReportFail
    \/ FReturn

Spec == Init /\ [][Next]_vars
SpecAnalyze == InitAnalyze /\ [][NextAnalyze]_vars
SpecFetcher == InitFetcher /\ [][NextFetcher]_vars

-----------------------------------------------------------------------------
(* Properties of the classifier *)

NamesOf(infos) == [i \in 1..Len(infos) |-> infos[i].name]

Called(fn) == \E i \in 1..Len(calls) : calls[i].fn = fn

Succeeded(fn) == \E i \in 1..Len(calls) : calls[i].fn = fn /\ calls[i].ret

\* the grouped listing has been printed
Listed == pc \in {"runtime", "rt_loop"} \/ (pc = "done" /\ Succeeded("onnx.load"))

\* how many graph inputs the classification loop has consumed
Processed ==
    IF pc = "classify" THEN input_i - 1
    ELSE IF Listed THEN Len(file.inputs)
    ELSE 0

Fragments == <<"inputs_embeds", "attention_mask", "position_ids", "past_key_values">>

Hits(name) == {i \in 1..Len(Fragments) : Contains(Fragments[i], Lower(name))}

\* the first fragment, in priority order, that occurs in the lower-cased name
FirstFragment(name) ==
    IF Hits(name) = {} THEN "other"
    ELSE Fragments[CHOOSE i \in Hits(name) : \A j \in Hits(name) : i <= j]

ExpectedNames(group) ==
    NamesOf(SelectSeq(SubSeq(file.inputs, 1, Processed),
                      LAMBDA t : FirstFragment(t.name) = group))

\* C1: at every point of the classification loop and after it, each of the
\* five lists holds exactly the consumed inputs whose first matching fragment
\* (priority inputs_embeds, attention_mask, position_ids, past_key_values,
\* else other) is that list's, in input order; so the lists partition the
\* consumed inputs and their lengths sum to the number consumed.
C1_Partition ==
    /\ NamesOf(inputs_embeds_inputs) = ExpectedNames("inputs_embeds")
    /\ NamesOf(attention_mask_inputs) = ExpectedNames("attention_mask")
    /\ NamesOf(position_ids_inputs) = ExpectedNames("position_ids")
    /\ NamesOf(past_key_values_inputs) = ExpectedNames("past_key_values")
    /\ NamesOf(other_inputs) = ExpectedNames("other")
    /\ Len(inputs_embeds_inputs) + Len(attention_mask_inputs) + Len(position_ids_inputs)
         + Len(past_key_values_inputs) + Len(other_inputs) = Processed

C1_Witness ==
    /\ pc = "runtime"
    /\ Len(file.inputs) = 2
    /\ NamesOf(inputs_embeds_inputs) = <<"past_key_values.0.inputs_embeds">>
    /\ NamesOf(other_inputs) = <<"pixel_values">>

InList(name, infos) == \E i \in 1..Len(infos) : infos[i].name = name

InOtherThanCache(name) ==
    \/ InList(name, inputs_embeds_inputs)
    \/ InList(name, attention_mask_inputs)
    \/ InList(name, position_ids_inputs)
    \/ InList(name, other_inputs)

HasCacheFragment(name) == Contains("past_key_values", Lower(name))

HasEarlierFragment(name) ==
    \/ Contains("inputs_embeds", Lower(name))
    \/ Contains("attention_mask", Lower(name))
    \/ Contains("position_ids", Lower(name))

\* C2 as stated: every consumed input whose name contains "past_key_values"
\* (case-insensitive) is in the recurrent-cache list and in no other list,
\* whatever else the name contains.
C2_Original ==
    \A k \in 1..Processed :
        LET name == file.inputs[k].name IN
        HasCacheFragment(name) =>
            InList(name, past_key_values_inputs) /\ ~InOtherThanCache(name)

\* C2, amended: a consumed input whose name contains "past_key_values"
\* (case-insensitive) and none of inputs_embeds, attention_mask, position_ids
\* is in the recurrent-cache list and in no other list; one whose name also
\* contains one of those three is not in the recurrent-cache list.
C2_Amended ==
    \A k \in 1..Processed :
        LET name == file.inputs[k].name IN
        HasCacheFragment(name) =>
            IF HasEarlierFragment(name)
            THEN ~InList(name, past_key_values_inputs)
            ELSE InList(name, past_key_values_inputs) /\ ~InOtherThanCache(name)

C2_Witness ==
    /\ pc = "runtime"
    /\ InList("PAST_KEY_VALUES.0.value", past_key_values_inputs)
    /\ InList("past_key_values.position_ids", position_ids_inputs)

\* C3 as stated: the phases are independent, so a run of analyze_onnx_model
\* that has returned has attempted both onnx.load and ort.InferenceSession.
C3_BothPhasesAttempted ==
    pc = "done" => Called("onnx.load") /\ Called("ort.InferenceSession")

\* the lines of the recurrent-cache group below its header
CacheLines == SelectSeq(out, LAMBDA l : l.group = "past_key_values" /\ l.kind # "header")

PrintedCount(name) ==
    Cardinality({j \in 1..Len(CacheLines) :
                    CacheLines[j].kind = "entry" /\ CacheLines[j].name = name})

HeldCount(name) ==
    Cardinality({i \in 1..Len(past_key_values_inputs) :
                    past_key_values_inputs[i].name = name})

\* C10 as stated: for every n >= 1 the group prints each entry at most once;
\* with n <= 6 it prints every entry exactly once and no elision line.
C10_EachEntryOnce ==
    LET n == Len(past_key_values_inputs) IN
    (Listed /\ n >= 1) =>
        /\ \A i \in 1..n :
              PrintedCount(past_key_values_inputs[i].name)
                 <= HeldCount(past_key_values_inputs[i].name)
        /\ n <= 6 =>
              /\ \A i \in 1..n :
                    PrintedCount(past_key_values_inputs[i].name)
                       = HeldCount(past_key_values_inputs[i].name)
              /\ \A j \in 1..Len(CacheLines) : CacheLines[j].kind # "elision"

AllInfos ==
    inputs_embeds_inputs \o attention_mask_inputs \o position_ids_inputs
        \o past_key_values_inputs \o other_inputs

\* the display value the rule gives one declared dimension
Rendered(dim, shown) ==
    /\ dim.dim_value > 0 => shown = IntD(dim.dim_value)
    /\ (dim.dim_value <= 0 /\ dim.dim_param # "") => shown = StrD(dim.dim_param)
    /\ (dim.dim_value <= 0 /\ dim.dim_param = "") => shown = IntD(-1)

\* C8: every consumed input is recorded with a display shape of the declared
\* length and order, where a dimension with concrete value > 0 shows that
\* integer, otherwise one with a non-empty symbolic name shows the name,
\* otherwise -1.
C8_DisplayShape ==
    \A k \in 1..Processed :
        LET t == file.inputs[k] IN
        \E e \in 1..Len(AllInfos) :
            /\ AllInfos[e].name = t.name
            /\ Len(AllInfos[e].shape) = Len(t.dims)
            /\ \A d \in 1..Len(t.dims) : Rendered(t.dims[d], AllInfos[e].shape[d])

C8_Witness ==
    /\ pc = "runtime"
    /\ Len(past_key_values_inputs) > 0
    /\ Len(file.inputs) >= 4
    /\ file.inputs[4].dims = <<Dim(0, "batch_size"), Dim(2, ""),
                               Dim(0, "past_sequence_length"), Dim(0, "")>>
    /\ past_key_values_inputs[1].shape =
          <<StrD("batch_size"), IntD(2), StrD("past_sequence_length"), IntD(-1)>>

\* positions in out of the lines that open a session input's block
RtStarts == SelectSeq([i \in 1..Len(out) |-> i], LAMBDA i : out[i].kind = "rt_input")

\* the dynamic-dimension lines printed in the block of the k-th session input
RtDynamic(k) ==
    LET from == RtStarts[k]
        to == IF k < Len(RtStarts) THEN RtStarts[k + 1] - 1 ELSE Len(out)
    IN  SelectSeq(SubSeq(out, from, to), LAMBDA l : l.kind = "rt_dynamic")

\* a reported dimension that is not a non-negative integer
NotConcrete(dim) == ~(dim.t = "int" /\ dim.v >= 0)

NotConcreteDims(shape) ==
    SelectSeq([i \in 1..Len(shape) |-> i - 1], LAMBDA i : NotConcrete(shape[i + 1]))

\* C7 as stated: for every session input the printed index list holds
\* exactly the positions of the dimensions that are not non-negative
\* integers (negative, a name, or None), increasing, and is printed if and
\* only if it is non-empty.
C7_DynamicIndices ==
    \A k \in 1..Len(RtStarts) :
        LET expected == NotConcreteDims(file.rt_inputs[k].shape) IN
        IF expected = <<>>
        THEN RtDynamic(k) = <<>>
        ELSE Len(RtDynamic(k)) = 1 /\ RtDynamic(k)[1].dyn = expected

ParseAttempted == Called("onnx.load") \/ Called("ort.InferenceSession")

InAnalyze == pc \in {"analyze", "classify", "runtime", "rt_loop", "done"}

ExistingCandidates == {i \in 1..Len(possible_paths) : possible_paths[i] \in fs}

\* C6: analyze_onnx_model is entered, and the file parsed, only after
\* os.path.exists(model_path) returned true; a path argument that does not
\* exist ends in exit status 1 with the error printed and no parse attempt;
\* without an argument the candidates are probed in their fixed order, the
\* first existing one is used, and if none exists the run ends in exit
\* status 1 with no parse attempt.
C6_CheckedBeforeParse ==
    /\ (InAnalyze \/ ParseAttempted) =>
          /\ Len(calls) > 0
          /\ \E i \in 1..Len(calls) :
                /\ calls[i] = Call("os.path.exists", model_path, TRUE)
                /\ \A j \in 1..i : calls[j].fn = "os.path.exists"
    /\ (Len(argv) > 1 /\ argv[2] \notin fs) =>
          /\ ~InAnalyze /\ ~ParseAttempted
          /\ pc = "exit" =>
                /\ exit_code = 1
                /\ out = <<Line("error_missing", "", argv[2], <<>>, 0)>>
    /\ Len(argv) <= 1 =>
          /\ pc = "search" =>
                calls = [i \in 1..(path_i - 1) |->
                            Call("os.path.exists", possible_paths[i], FALSE)]
          /\ (pc \notin {"main", "search"} /\ ExistingCandidates # {}) =>
                /\ model_path =
                      possible_paths[CHOOSE i \in ExistingCandidates :
                                        \A j \in ExistingCandidates : i <= j]
                /\ pc # "exit"
          /\ (pc \notin {"main", "search"} /\ ExistingCandidates = {}) =>
                /\ pc = "exit"
                /\ exit_code = 1
                /\ ~ParseAttempted
    /\ exit_code = 1 <=> pc = "exit"

C6_Witness ==
    /\ pc = "exit"
    /\ Len(argv) > 1
    /\ argv[2] \notin fs
    /\ exit_code = 1
    /\ calls = <<Call("os.path.exists", argv[2], FALSE)>>

-----------------------------------------------------------------------------
(* Properties of the fetcher *)

SixFiles ==
    <<"config.json", "preprocessor_config.json", "tokenizer.json",
      "onnx/decoder_model_merged_q4f16.onnx", "onnx/vision_encoder_q4f16.onnx",
      "onnx/embed_tokens_q4f16.onnx">>

FPrinted(kind) == {i \in 1..Len(f_out) : f_out[i].kind = kind}

RetrievalFailed == \E k \in 1..Len(requested) : requested[k] \notin remote

\* C4: files are requested one after another in list order; once the
\* retrieval of the k-th file has raised, it stays the last file requested,
\* the completion message and the file list are not printed, the error is
\* printed once, and download_model has returned False.
C4_AbortOnFailure ==
    /\ requested = SubSeq(required_files, 1, Len(requested))
    /\ RetrievalFailed =>
          /\ \A k \in 1..Len(requested) : requested[k] \notin remote <=> k = Len(requested)
          /\ f_pc = "done"
          /\ result = "False"
          /\ FPrinted("all_done") = {}
          /\ FPrinted("list_header") = {}
          /\ FPrinted("size") = {}
          /\ Cardinality(FPrinted("failed")) = 1

C4_Witness ==
    /\ f_pc = "done"
    /\ Len(requested) = 3
    /\ requested[3] \notin remote
    /\ result = "False"

\* the six files the retrievals up to the first failure cover
FirstMissing == {k \in 1..Len(SixFiles) : SixFiles[k] \notin remote}

ExpectedRequests ==
    IF FirstMissing = {} THEN SixFiles
    ELSE SubSeq(SixFiles, 1, CHOOSE k \in FirstMissing : \A j \in FirstMissing : k <= j)

\* C9: whatever the flag, the requests are a duplicate-free prefix of the
\* same six files in the same order, and a finished run has requested
\* exactly the files up to the first unavailable one and returned a result
\* fixed by the retrieval and size-query outcomes alone.
C9_FlagHasNoEffect ==
    /\ Len(requested) <= Len(SixFiles)
    /\ requested = SubSeq(SixFiles, 1, Len(requested))
    /\ \A i, j \in 1..Len(requested) : i # j => requested[i] # requested[j]
    /\ f_pc \in {"loop", "report", "done"} => required_files = SixFiles
    /\ f_pc = "done" =>
          /\ requested = ExpectedRequests
          /\ result = (IF FirstMissing = {} /\ stat_fail = 0 THEN "True" ELSE "False")

C9_Witness ==
    /\ f_pc = "done"
    /\ f_argv = <<FProg>>
    /\ ~use_q4f16
    /\ requested = SixFiles
    /\ result = "True"

====
